---- MODULE Spec2Model ----
(***************************************************************************)
(* Model of the Smithers WebSocket relay                                   *)
(* (apps/tauri-app/src-tauri/src/ws_server.rs and main.rs).                *)
(*                                                                         *)
(* start_server binds a fixed port and runs an accept loop that spawns one *)
(* handle_connection task per accepted TCP stream.  Each task performs the *)
(* WebSocket upgrade, sends one "connected" message and then reads frames, *)
(* forwarding every JSON text frame with a string `type` to the event      *)
(* publisher (AppHandle::emit) under "ws:<type>" and under "ws:message".   *)
(*                                                                         *)
(* Text payloads are sequences of lexical tokens; Decode is a recursive    *)
(* descent JSON parser over them, as serde_json::from_str is over bytes.   *)
(*                                                                         *)
(* Two scenarios are checked.  HandlerSpec has one client that sends every *)
(* kind of item, for the properties of a single handler.  Spec (FairSpec   *)
(* with fairness of the accept step) has up to MaxConns clients that send  *)
(* typed messages and close frames, for the properties of the listener and *)
(* of handlers running side by side.                                       *)
(***************************************************************************)
EXTENDS Integers, Sequences, FiniteSets, TLC

\* ------------------------------------------------------------------ bounds
MaxConns == 2
MaxFrames == 2

Conns == 1..MaxConns

\* ------------------------------------------------------- program constants
CatchAllTopic == "ws:message"
TopicPrefix == "ws:"

\* ------------------------------------------------------------- JSON values
Nil == [kind |-> "none", s |-> ""]
JString(x) == [kind |-> "string", s |-> x]
JNumber(x) == [kind |-> "number", s |-> x]
JBool(x) == [kind |-> "bool", s |-> x]
JNull == [kind |-> "null", s |-> ""]
JArray(xs) == [kind |-> "array", items |-> xs]
JObject(fs) == [kind |-> "object", fields |-> fs]
EmptyMap == [k \in {} |-> Nil]

\* ------------------------------------------------------------------ tokens
P(x) == [t |-> "punct", s |-> x]
S(x) == [t |-> "str", s |-> x]
N(x) == [t |-> "num", s |-> x]
W(x) == [t |-> "word", s |-> x]

\* {"type":"status","ok":true}
TxtStatus == <<P("{"), S("type"), P(":"), S("status"), P(","), S("ok"), P(":"), W("true"), P("}")>>
\* not-json
TxtNotJson == <<W("not-json")>>
\* {"ok":true}
TxtNoType == <<P("{"), S("ok"), P(":"), W("true"), P("}")>>
\* {"type":5}
TxtNumType == <<P("{"), S("type"), P(":"), N("5"), P("}")>>
\* {"type":""}
TxtEmptyType == <<P("{"), S("type"), P(":"), S(""), P("}")>>
\* {"type":"message"}
TxtMessage == <<P("{"), S("type"), P(":"), S("message"), P("}")>>

Texts == {TxtStatus, TxtNotJson, TxtNoType, TxtNumType, TxtEmptyType, TxtMessage}

\* ------------------------------------------------------------------ parser
Fail(i) == [ok |-> FALSE, val |-> Nil, next |-> i]
Done(v, i) == [ok |-> TRUE, val |-> v, next |-> i]
IsTok(toks, i, tok) == i <= Len(toks) /\ toks[i] = tok

RECURSIVE ParseValue(_, _)
RECURSIVE ParseMembers(_, _, _)
RECURSIVE ParseElements(_, _, _)

\* after a key/value pair list has started: toks[i] is expected to be a key
ParseMembers(toks, i, acc) ==
    IF i + 1 <= Len(toks) /\ toks[i].t = "str" /\ toks[i + 1] = P(":")
    THEN LET r == ParseValue(toks, i + 2)
             m == (toks[i].s :> r.val) @@ acc
         IN  IF ~r.ok THEN Fail(i)
             ELSE IF IsTok(toks, r.next, P(",")) THEN ParseMembers(toks, r.next + 1, m)
             ELSE IF IsTok(toks, r.next, P("}")) THEN Done(JObject(m), r.next + 1)
             ELSE Fail(r.next)
    ELSE Fail(i)

ParseElements(toks, i, acc) ==
    LET r == ParseValue(toks, i)
        xs == Append(acc, r.val)
    IN  IF ~r.ok THEN Fail(i)
        ELSE IF IsTok(toks, r.next, P(",")) THEN ParseElements(toks, r.next + 1, xs)
        ELSE IF IsTok(toks, r.next, P("]")) THEN Done(JArray(xs), r.next + 1)
        ELSE Fail(r.next)

ParseValue(toks, i) ==
    IF i > Len(toks) THEN Fail(i)
    ELSE LET tok == toks[i] IN
         CASE tok.t = "str" -> Done(JString(tok.s), i + 1)
           [] tok.t = "num" -> Done(JNumber(tok.s), i + 1)
           [] tok.t = "word" ->
                IF tok.s \in {"true", "false"} THEN Done(JBool(tok.s), i + 1)
                ELSE IF tok.s = "null" THEN Done(JNull, i + 1)
                ELSE Fail(i)
           [] tok = P("{") ->
                IF IsTok(toks, i + 1, P("}")) THEN Done(JObject(EmptyMap), i + 2)
                ELSE ParseMembers(toks, i + 1, EmptyMap)
           [] tok = P("[") ->
                IF IsTok(toks, i + 1, P("]")) THEN Done(JArray(<<>>), i + 2)
                ELSE ParseElements(toks, i + 1, <<>>)
           [] OTHER -> Fail(i)

\* serde_json::from_str::<Value>: one value, then end of input
Decode(text) ==
    LET r == ParseValue(text, 1)
    IN  IF r.ok /\ r.next = Len(text) + 1 THEN [ok |-> TRUE, val |-> r.val]
        ELSE [ok |-> FALSE, val |-> Nil]

\* variant: a numeric `type` is accepted as if it were a string
GetTypeLoose(json) ==
    IF json.kind = "object"
    THEN IF "type" \in DOMAIN json.fields
         THEN IF json.fields["type"].kind \in {"string", "number"}
              THEN [some |-> TRUE, s |-> json.fields["type"].s]
              ELSE [some |-> FALSE, s |-> ""]
         ELSE [some |-> FALSE, s |-> ""]
    ELSE [some |-> FALSE, s |-> ""]

\* json.get("type").and_then(|t| t.as_str())
None == [some |-> FALSE, s |-> ""]
Some(x) == [some |-> TRUE, s |-> x]
GetType(json) ==
    IF json.kind = "object"
    THEN IF "type" \in DOMAIN json.fields
         THEN IF json.fields["type"].kind = "string" THEN Some(json.fields["type"].s) ELSE None
         ELSE None
    ELSE None

\* format!("ws:{}", msg_type)
EventName(msg_type) == TopicPrefix \o msg_type

\* ------------------------------------------------------------------ frames
\* items yielded by read.next(): Some(Ok(Message)), Some(Err(e)) or None
TextFrame(d) == [kind |-> "Text", data |-> d]
BinaryFrame(d) == [kind |-> "Binary", data |-> d]
PingFrame == [kind |-> "Ping", data |-> <<>>]
CloseFrame == [kind |-> "Close", data |-> <<>>]
RecvError == [kind |-> "Err", data |-> <<>>]
EndOfStream == [kind |-> "Eof", data |-> <<>>]

Frames == {TextFrame(d) : d \in Texts}
          \cup {BinaryFrame(TxtStatus), PingFrame, CloseFrame, RecvError, EndOfStream}

\* the message built at ws_server.rs:47; version and timestamp are opaque here
ConnectedMsg == TextFrame(<<P("{"), S("type"), P(":"), S("connected"), P(","),
                            S("serverVersion"), P(":"), S("CARGO_PKG_VERSION"), P(","),
                            S("timestamp"), P(":"), N("now"), P("}")>>)

\* ------------------------------------------------------------------- state
VARIABLES
    listener,      \* position of start_server: "bind", "accept", "returned"
    bindResult,    \* "none", "ok", "err"
    bindAttempts,  \* number of TcpListener::bind calls made
    acceptError,   \* TRUE once listener.accept() has returned Err
    hostRunning,   \* the tauri host process (main.rs) is alive
    backlog,       \* connections established by clients, not yet accepted
    hpc,           \* position of each handle_connection task
    inbox,         \* per connection: items the peer produced, not yet read
    received,      \* per connection: items read.next() has yielded so far
    sent,          \* per connection: frames the handler wrote successfully
    emitted,       \* per connection: app_handle.emit calls made, in order
    errs           \* per connection: eprintln! diagnostics, in order

vars == <<listener, bindResult, bindAttempts, acceptError, hostRunning, backlog,
          hpc, inbox, received, sent, emitted, errs>>

listenerVars == <<listener, bindResult, bindAttempts, acceptError, hostRunning>>

\* spec.md 4.2 state of a connection handler
Handshaking(c) == hpc[c] \in {"upgrade", "send"}
Streaming(c) == hpc[c] = "recv"
Closed(c) == hpc[c] = "done"
Spawned(c) == hpc[c] # "unspawned"

InBacklog(c) == \E i \in 1..Len(backlog) : backlog[i] = c
Connected(c) == InBacklog(c) \/ Spawned(c)

RECURSIVE SumFrames(_)
SumFrames(n) == IF n = 0 THEN 0 ELSE Len(inbox[n]) + Len(received[n]) + SumFrames(n - 1)
TotalFrames == SumFrames(MaxConns)

PeerEnded(c) == \/ \E i \in 1..Len(inbox[c]) : inbox[c][i].kind = "Eof"
                \/ \E j \in 1..Len(received[c]) : received[c][j].kind = "Eof"

Init ==
    /\ listener = "bind"
    /\ bindResult = "none"
    /\ bindAttempts = 0
    /\ acceptError = FALSE
    /\ hostRunning = TRUE
    /\ backlog = <<>>
    /\ hpc = [c \in Conns |-> "unspawned"]
    /\ inbox = [c \in Conns |-> <<>>]
    /\ received = [c \in Conns |-> <<>>]
    /\ sent = [c \in Conns |-> <<>>]
    /\ emitted = [c \in Conns |-> <<>>]
    /\ errs = [c \in Conns |-> <<>>]

\* ----------------------------------------------------------- start_server
\* variant: a failed bind is tried again
AfterBindRetry(ok) == IF ok THEN "accept" ELSE "bind"

\* match TcpListener::bind(&addr).await { Ok(l) => l, Err(e) => return }
AfterBind(ok) == IF ok THEN "accept" ELSE "returned"

\* start_server runs in a task of its own (main.rs:38-40): when it returns
\* the task ends and the host is left as it was
HostAfterReturn(running) == running

Bind ==
    /\ listener = "bind"
    /\ \E ok \in BOOLEAN :
         /\ listener' = AfterBind(ok)
         /\ bindResult' = IF ok THEN "ok" ELSE "err"
         /\ hostRunning' = IF ok THEN hostRunning ELSE HostAfterReturn(hostRunning)
    /\ bindAttempts' = bindAttempts + 1
    /\ UNCHANGED <<acceptError, backlog, hpc, inbox, received, sent, emitted, errs>>

\* variant: the loop awaits each handler before accepting again
AcceptReadyInline ==
    listener = "accept" /\ backlog # <<>> /\ \A c \in Conns : hpc[c] \in {"unspawned", "done"}

\* the accept loop is at listener.accept().await and a stream is queued;
\* the spawned handlers are not awaited, so their positions do not matter
AcceptReady == listener = "accept" /\ backlog # <<>>

\* Ok((stream, addr)) => tokio::spawn(handle_connection(stream, addr, app))
AcceptOk ==
    /\ AcceptReady
    /\ hpc' = [hpc EXCEPT ![Head(backlog)] = "upgrade"]
    /\ backlog' = Tail(backlog)
    /\ UNCHANGED <<listenerVars, inbox, received, sent, emitted, errs>>

\* variant: an accept error is skipped and the loop accepts again
AfterAcceptErrContinue == "accept"

\* `while let Ok(..)`: the first Err of listener.accept() ends the loop
AfterAcceptErr == "returned"

\* variant: the handler tasks are aborted when start_server returns
AbortedOnReturnAll == Conns

\* handlers ended by the return of start_server: the JoinHandle of
\* tokio::spawn is dropped at once, which detaches the task
AbortedOnReturn == {}

AcceptErr ==
    /\ listener = "accept"
    /\ listener' = AfterAcceptErr
    /\ acceptError' = TRUE
    /\ hostRunning' = HostAfterReturn(hostRunning)
    /\ hpc' = [c \in Conns |-> IF c \in AbortedOnReturn /\ Spawned(c) THEN "done" ELSE hpc[c]]
    /\ UNCHANGED <<bindResult, bindAttempts, backlog, inbox,
                   received, sent, emitted, errs>>

\* ------------------------------------------------------------------- peers
\* a client completes a TCP connection to the bound port (lowest free id)
ClientConnect(c) ==
    /\ listener = "accept"
    /\ ~Connected(c)
    /\ \A d \in Conns : d < c => Connected(d)
    /\ backlog' = Append(backlog, c)
    /\ UNCHANGED <<listenerVars, hpc, inbox, received, sent, emitted, errs>>

\* the peer (or the transport) produces the next item of the inbound stream;
\* what a peer writes before its stream is accepted is read like what it
\* writes during the upgrade, so production starts when the handler exists
ClientSend(c, f) ==
    /\ Spawned(c)
    /\ ~PeerEnded(c)
    /\ TotalFrames < MaxFrames
    /\ inbox' = [inbox EXCEPT ![c] = Append(@, f)]
    /\ UNCHANGED <<listenerVars, backlog, hpc, received, sent, emitted, errs>>

\* ------------------------------------------------------- handle_connection
\* one eprintln! line: what failed and the number of items read so far
ErrLine(tag, n) == [tag |-> tag, frame |-> n]

\* variant: the upgrade error is logged and the handler goes on
AfterUpgradeIgnoreErr(ok) == "send"

\* variant: the receive loop starts without the "connected" message
AfterUpgradeSkipSend(ok) == IF ok THEN "recv" ELSE "done"

\* match accept_async(stream).await { Ok(ws) => ws, Err(e) => return }
AfterUpgrade(ok) == IF ok THEN "send" ELSE "done"

Upgrade(c) ==
    /\ hpc[c] = "upgrade"
    /\ \E ok \in BOOLEAN :
         /\ hpc' = [hpc EXCEPT ![c] = AfterUpgrade(ok)]
         /\ errs' = [errs EXCEPT ![c] = IF ok THEN @ ELSE Append(@, ErrLine("handshake_failed", 0))]
    /\ UNCHANGED <<listenerVars, backlog, inbox, received, sent, emitted>>

\* variant: the send error is logged and the handler goes on
AfterSendIgnoreErr(ok) == "recv"

\* if let Err(e) = write.send(Message::Text(connected_msg)).await { return }
AfterSend(ok) == IF ok THEN "recv" ELSE "done"

SendConnected(c) ==
    /\ hpc[c] = "send"
    /\ \E ok \in BOOLEAN :
         /\ hpc' = [hpc EXCEPT ![c] = AfterSend(ok)]
         /\ sent' = [sent EXCEPT ![c] = IF ok THEN Append(@, ConnectedMsg) ELSE @]
         /\ errs' = [errs EXCEPT ![c] = IF ok THEN @ ELSE Append(@, ErrLine("send_failed", 0))]
    /\ UNCHANGED <<listenerVars, backlog, inbox, received, emitted>>

\* variant: any other kind of frame ends the receive loop
AfterOtherFrameBreak == "done"

\* variant: the close frame is logged and the loop goes on
AfterCloseContinue == "recv"

\* variant: a parse error ends the receive loop
AfterParseErrorBreak == "done"

\* the arms of `match msg` (ws_server.rs:65-97): next position of the handler
AfterParseError == "recv"

AfterOtherFrame == "recv"

AfterClose == "done"

\* variant: binary frames are decoded like text frames
IsTextOrBinary(f) == f.kind \in {"Text", "Binary"}

\* the arm Ok(Message::Text(text)) (ws_server.rs:66)
IsText(f) == f.kind = "Text"

\* variant: the newest item is taken instead of the oldest
NextItemNewest(q) == q[Len(q)]

\* read.next() yields the items of the stream in arrival order
NextItem(q) == Head(q)

\* variant: a ping is answered by the handler
RepliesPong(f) == IF f.kind = "Ping" THEN <<[kind |-> "Pong", data |-> <<>>]>> ELSE <<>>

\* frames the receive loop writes for an item: `write` is not used after
\* the "connected" message (ws_server.rs:64-98)
Replies(f) == <<>>

\* variant: a close frame shuts every handler down
CloseTargetsAll(c) == Conns

\* connections whose handler a close frame on c terminates
CloseTargets(c) == {c}

\* serde_json::from_str of a text frame's payload (ws_server.rs:68); the
\* decodings of the texts the peers send are computed once
Decoded == [t \in Texts |-> Decode(t)]
FromStr(text) == Decoded[text]

AfterFrame(f) ==
    CASE IsText(f) -> IF FromStr(f.data).ok THEN "recv" ELSE AfterParseError
      [] f.kind = "Close" -> AfterClose
      [] f.kind = "Err" -> "done"
      [] f.kind = "Eof" -> "done"
      [] OTHER -> AfterOtherFrame

\* one app_handle.emit call: topic, payload, the item it is made for, result
Dispatch(topic, payload, n, ok) ==
    [topic |-> topic, payload |-> payload, frame |-> n, ok |-> ok]

\* variant: the general channel is emitted first
DispatchTopicSwapped(step, msg_type) ==
    IF step = 1 THEN CatchAllTopic ELSE EventName(msg_type)

\* the topic of the first and of the second emit of a message
DispatchTopic(step, msg_type) ==
    IF step = 1 THEN EventName(msg_type) ELSE CatchAllTopic

\* variant: the general channel gets only the `type` string
DispatchPayloadTypeOnly(step, json) ==
    IF step = 2 THEN JString(GetType(json).s) ELSE json

\* json.clone() for the first emit, json itself for the second
DispatchPayload(step, json) == json

\* variant: a failed first emit skips the second
SecondEmitMadeIfOk(ok) == ok

\* the second emit follows the first whatever its result (ws_server.rs:73-78)
SecondEmitMade(ok) == TRUE

\* the emit calls of one text frame (ws_server.rs:68-82); ok1 and ok2 are the
\* results the publisher returns
Emits(f, n, ok1, ok2) ==
    IF IsText(f) /\ FromStr(f.data).ok
    THEN LET json == FromStr(f.data).val
             msg_type == GetType(json)
         IN  IF msg_type.some
             THEN <<Dispatch(DispatchTopic(1, msg_type.s), DispatchPayload(1, json), n, ok1)>>
                  \o (IF SecondEmitMade(ok1)
                      THEN <<Dispatch(DispatchTopic(2, msg_type.s), DispatchPayload(2, json), n, ok2)>>
                      ELSE <<>>)
             ELSE <<>>
    ELSE <<>>

\* the eprintln! lines of one item
FrameErrs(f, n, ok1, ok2) ==
    CASE IsText(f) ->
           IF FromStr(f.data).ok
           THEN IF Emits(f, n, ok1, ok2) = <<>> THEN <<>>
                ELSE (IF ok1 THEN <<>> ELSE <<ErrLine("emit_failed", n)>>)
                     \o (IF SecondEmitMade(ok1) /\ ~ok2
                         THEN <<ErrLine("emit_message_failed", n)>> ELSE <<>>)
           ELSE <<ErrLine("parse_failed", n)>>
      [] f.kind = "Err" -> <<ErrLine("ws_error", n)>>
      [] OTHER -> <<>>

\* one iteration of `while let Some(msg) = read.next().await { match msg {..} }`:
\* the handler does not yield between reading an item and the end of its arm
ReadFrame(c) ==
    /\ hpc[c] = "recv"
    /\ inbox[c] # <<>>
    /\ LET f == NextItem(inbox[c])
           n == Len(received[c]) + 1
       IN
         /\ inbox' = [inbox EXCEPT ![c] = Tail(@)]
         /\ received' = [received EXCEPT ![c] = Append(@, f)]
         /\ hpc' = [d \in Conns |->
                      IF d = c THEN AfterFrame(f)
                      ELSE IF f.kind = "Close" /\ d \in CloseTargets(c) /\ Spawned(d)
                           THEN "done" ELSE hpc[d]]
         /\ \E ok1, ok2 \in BOOLEAN :
              /\ emitted' = [emitted EXCEPT ![c] = @ \o Emits(f, n, ok1, ok2)]
              /\ errs' = [errs EXCEPT ![c] = @ \o FrameErrs(f, n, ok1, ok2)]
         /\ sent' = [sent EXCEPT ![c] = @ \o Replies(f)]
    /\ UNCHANGED <<listenerVars, backlog>>

Handler(c) ==
    \/ Upgrade(c)
    \/ SendConnected(c)
    \/ ReadFrame(c)

\* what the peers of the concurrency scenarios send: a typed message or a close
PlainFrames == {TextFrame(TxtStatus), CloseFrame}

\* the connection of the single-client scenarios
FirstConn == {c \in Conns : c = 1}

\* any number of clients (up to MaxConns), each sending typed messages and
\* close frames
Next ==
    \/ Bind
    \/ AcceptOk
    \/ AcceptErr
    \/ \E c \in Conns : ClientConnect(c)
    \/ \E c \in Conns, f \in PlainFrames : ClientSend(c, f)
    \/ \E c \in Conns : Handler(c)

Spec == Init /\ [][Next]_vars

\* the runtime polls the accept task whenever a stream is queued
FairSpec == Spec /\ WF_vars(AcceptOk)

\* one client sending every kind of item
HandlerNext ==
    \/ Bind
    \/ AcceptOk
    \/ AcceptErr
    \/ \E c \in FirstConn : ClientConnect(c)
    \/ \E c \in FirstConn, f \in Frames : ClientSend(c, f)
    \/ \E c \in Conns : Handler(c)

HandlerSpec == Init /\ [][HandlerNext]_vars

\* ============================================================= properties
\* expected decodings, written out by hand from the JSON texts
StatusJson == JObject([type |-> JString("status"), ok |-> JBool("true")])
MessageJson == JObject([type |-> JString("message")])
EmptyTypeJson == JObject([type |-> JString("")])

TypedTexts == {TxtStatus, TxtMessage, TxtEmptyType}
ExpectedJson(t) == CASE t = TxtStatus -> StatusJson [] t = TxtMessage -> MessageJson
                     [] OTHER -> EmptyTypeJson
ExpectedTopic(t) == CASE t = TxtStatus -> "ws:status" [] t = TxtMessage -> "ws:message"
                      [] OTHER -> "ws:"

IsTyped(f) == f.kind = "Text" /\ f.data \in TypedTexts

\* the emit calls made for the i-th item read on connection c
DispatchesFor(c, i) == SelectSeq(emitted[c], LAMBDA d : d.frame = i)
ErrsFor(c, i) == SelectSeq(errs[c], LAMBDA e : e.frame = i)

TwoDispatches(c, i) ==
    LET ds == DispatchesFor(c, i)
        t == received[c][i].data
    IN  /\ Len(ds) = 2
        /\ \/ ds[1].topic = ExpectedTopic(t) /\ ds[2].topic = "ws:message"
           \/ ds[2].topic = ExpectedTopic(t) /\ ds[1].topic = "ws:message"
        /\ ds[1].payload = ExpectedJson(t)
        /\ ds[2].payload = ExpectedJson(t)

\* C1: every processed text frame that decodes with a string `type` T has
\* exactly two dispatches, one to "ws:"+T and one to "ws:message", both with
\* the decoded payload unmodified
C1_TwoDispatches ==
    \A c \in Conns : \A i \in 1..Len(received[c]) :
        IsTyped(received[c][i]) => TwoDispatches(c, i)

C1_Witness ==
    \E c \in Conns : \E i \in 1..Len(received[c]) :
        /\ received[c][i] = TextFrame(TxtStatus)
        /\ Len(DispatchesFor(c, i)) = 2

\* C2: per connection the specific-topic dispatch of a message precedes its
\* catch-all dispatch, and both precede every dispatch of a later frame
C2_Order ==
    \A c \in Conns :
        /\ \A j, k \in 1..Len(emitted[c]) : j < k => emitted[c][j].frame <= emitted[c][k].frame
        /\ \A i \in 1..Len(received[c]) :
             LET ds == DispatchesFor(c, i) IN
               /\ Len(ds) >= 1 => ds[1].topic = ExpectedTopic(received[c][i].data)
               /\ Len(ds) >= 2 => ds[2].topic = "ws:message"
               /\ IsTyped(received[c][i]) => Len(ds) = 2

C2_Witness ==
    \E c \in Conns :
        /\ received[c] = <<TextFrame(TxtStatus), TextFrame(TxtEmptyType)>>
        /\ Len(emitted[c]) = 4
        /\ emitted[c][2].frame = 1
        /\ emitted[c][3].frame = 2

\* items that end the receive loop
Terminators == {"Close", "Err", "Eof"}

\* C3: a failed dispatch is isolated and non-fatal: after a failed
\* specific-topic dispatch the catch-all dispatch is still made, the handler
\* leaves Streaming only on a terminating item, and later frames are
\* dispatched as usual
C3_FailureIsolated ==
    \A c \in Conns : \A k \in 1..Len(emitted[c]) :
        ~emitted[c][k].ok =>
            /\ (k = 1 \/ emitted[c][k - 1].frame # emitted[c][k].frame) =>
                  /\ k < Len(emitted[c])
                  /\ emitted[c][k + 1].frame = emitted[c][k].frame
                  /\ emitted[c][k + 1].topic = "ws:message"
            /\ Streaming(c) \/ (Closed(c) /\ received[c][Len(received[c])].kind \in Terminators)
            /\ \A i \in 1..Len(received[c]) :
                  i > emitted[c][k].frame /\ IsTyped(received[c][i])
                     => TwoDispatches(c, i)

C3_Witness ==
    \E c \in Conns :
        /\ Len(emitted[c]) = 4
        /\ ~emitted[c][1].ok
        /\ ~emitted[c][2].ok
        /\ emitted[c][4].frame = 2
        /\ hpc[c] = "recv"

\* C4: a text frame that does not parse causes no dispatch, leaves the
\* handler in Streaming, and a later valid typed frame is dispatched twice
C4_ParseFailure ==
    \A c \in Conns : \A i \in 1..Len(received[c]) :
        received[c][i] = TextFrame(TxtNotJson) =>
            /\ DispatchesFor(c, i) = <<>>
            /\ i = Len(received[c]) => hpc[c] = "recv"
            /\ \A j \in 1..Len(received[c]) :
                  j > i /\ IsTyped(received[c][j]) => TwoDispatches(c, j)

C4_Witness ==
    \E c \in Conns :
        /\ received[c] = <<TextFrame(TxtNotJson), TextFrame(TxtStatus)>>
        /\ Len(emitted[c]) = 2
        /\ hpc[c] = "recv"

\* C5: a well-formed payload without `type`, or with a non-string `type`,
\* causes no dispatch and no diagnostic, and the handler stays in Streaming
C5_NoUsableType ==
    \A c \in Conns : \A i \in 1..Len(received[c]) :
        received[c][i] \in {TextFrame(TxtNoType), TextFrame(TxtNumType)} =>
            /\ DispatchesFor(c, i) = <<>>
            /\ ErrsFor(c, i) = <<>>
            /\ i = Len(received[c]) => hpc[c] = "recv"

C5_Witness ==
    \E c \in Conns :
        /\ received[c] = <<TextFrame(TxtNoType), TextFrame(TxtNumType)>>
        /\ hpc[c] = "recv"

\* C6: no inbound item is read and no dispatch is made on a connection
\* whose "connected" message has not been sent
C6_HandshakeFirst ==
    \A c \in Conns :
        received[c] # <<>> \/ emitted[c] # <<>> \/ Streaming(c) => sent[c] = <<ConnectedMsg>>

C6_Witness ==
    \E c \in Conns : emitted[c] # <<>> /\ inbox[c] # <<>> /\ sent[c] = <<ConnectedMsg>>

\* the per-connection state of d
ConnState(d) == <<hpc[d], inbox[d], received[d], sent[d], emitted[d], errs[d]>>

ClosedByCloseFrame(c) ==
    Closed(c) /\ received[c] # <<>> /\ received[c][Len(received[c])] = CloseFrame

\* C7: reading a close frame on c closes c and changes nothing of any other
\* connection; a handler in Streaming can take its next step whatever the
\* other handlers did
C7_CloseIsLocal ==
    /\ [][\A c \in Conns :
            hpc[c] = "recv" /\ inbox[c] # <<>> /\ Head(inbox[c]) = CloseFrame
              /\ received'[c] # received[c]
            => /\ hpc'[c] = "done"
               /\ \A d \in Conns \ {c} : ConnState(d)' = ConnState(d)]_vars
    /\ [](\A c, d \in Conns :
            c # d /\ ClosedByCloseFrame(c) /\ hpc[d] = "recv" /\ inbox[d] # <<>>
               => ENABLED ReadFrame(d))

C7_Witness ==
    \E c, d \in Conns :
        /\ c # d
        /\ ClosedByCloseFrame(c)
        /\ hpc[d] = "recv"
        /\ received[d] = <<TextFrame(TxtStatus)>>
        /\ Len(emitted[d]) = 2

\* C8: after a failed bind start_server has returned: nothing is accepted,
\* no handler exists, nothing is dispatched, bind is not retried and the
\* host process is alive
C8_BindFailure ==
    bindResult = "err" =>
        /\ listener = "returned"
        /\ bindAttempts = 1
        /\ backlog = <<>>
        /\ \A c \in Conns : ~Spawned(c) /\ emitted[c] = <<>>
        /\ hostRunning

C8_Witness == bindResult = "err" /\ listener = "returned"

\* C9: no dispatch is made for a message whose `type` is the empty string
C9_NonEmptyType ==
    \A c \in Conns : \A k \in 1..Len(emitted[c]) :
        emitted[c][k].payload.fields["type"].s # ""

\* C10: while the accept loop runs, a connection waiting in the backlog is
\* eventually given a handler, whatever the existing handlers do
C10_AcceptNotBlocked ==
    \A c \in Conns : InBacklog(c) ~> (Spawned(c) \/ listener = "returned")

C10_Witness ==
    \E c, d \in Conns : hpc[c] = "upgrade" /\ hpc[d] = "upgrade" /\ c # d

HasErr(c, tag) == \E k \in 1..Len(errs[c]) : errs[c][k].tag = tag

\* C11: a handler whose upgrade handshake failed is Closed and has sent no
\* message, read no item and made no dispatch
C11_UpgradeFailure ==
    \A c \in Conns :
        HasErr(c, "handshake_failed") =>
            /\ Closed(c)
            /\ sent[c] = <<>>
            /\ received[c] = <<>>
            /\ emitted[c] = <<>>

C11_Witness ==
    \E c \in Conns : HasErr(c, "handshake_failed") /\ Len(inbox[c]) = 2

\* C12: a handler whose "connected" message could not be sent is Closed and
\* has read no item and made no dispatch
C12_SendFailure ==
    \A c \in Conns :
        HasErr(c, "send_failed") =>
            /\ Closed(c)
            /\ ~HasErr(c, "handshake_failed")
            /\ received[c] = <<>>
            /\ emitted[c] = <<>>

C12_Witness ==
    \E c \in Conns : HasErr(c, "send_failed") /\ inbox[c] # <<>> /\ Closed(c)

C14_ClosedIsTerminal ==
    /\ [](\A c \in Conns :
            /\ \A i \in 1..Len(received[c]) :
                  received[c][i].kind \in Terminators => i = Len(received[c]) /\ Closed(c))
    /\ [][\A c \in Conns :
            Closed(c) => /\ Closed(c)'
                         /\ received'[c] = received[c]
                         /\ emitted'[c] = emitted[c]
                         /\ sent'[c] = sent[c]
                         /\ errs'[c] = errs[c]]_vars

C14_Witness ==
    \E c \in Conns :
        /\ Closed(c)
        /\ Len(received[c]) = 1
        /\ received[c][1].kind \in Terminators
        /\ inbox[c] = <<TextFrame(TxtStatus)>>

\* kinds of frame matched by the `_ => {}` arm
OtherKinds == {"Binary", "Ping"}

RECURSIVE ExpectedSpecific(_, _)
ExpectedSpecific(rcv, i) ==
    IF i > Len(rcv) THEN <<>>
    ELSE (IF IsTyped(rcv[i])
          THEN <<[topic |-> ExpectedTopic(rcv[i].data),
                  payload |-> ExpectedJson(rcv[i].data), frame |-> i]>>
          ELSE <<>>) \o ExpectedSpecific(rcv, i + 1)

\* C16: items are read in arrival order, and the specific-topic dispatches
\* of a connection are, in order, those of its received typed text frames
C16_ArrivalOrder ==
    /\ [](\A c \in Conns :
            LET exp == ExpectedSpecific(received[c], 1) IN
              /\ Len(emitted[c]) = 2 * Len(exp)
              /\ \A k \in 1..Len(exp) :
                    /\ emitted[c][2 * k - 1].topic = exp[k].topic
                    /\ emitted[c][2 * k - 1].payload = exp[k].payload
                    /\ emitted[c][2 * k - 1].frame = exp[k].frame)
    /\ [][\A c \in Conns :
            received'[c] # received[c] =>
                /\ received'[c] = Append(received[c], Head(inbox[c]))
                /\ inbox'[c] = Tail(inbox[c])]_vars

C16_Witness ==
    \E c \in Conns :
        /\ received[c] = <<TextFrame(TxtMessage), TextFrame(TxtStatus)>>
        /\ Len(emitted[c]) = 4
        /\ emitted[c][3].topic = "ws:status"

\* C17: once listener.accept() has failed the loop has ended for good: no
\* stream is taken from the backlog and no handler is spawned any more
C17_AcceptErrorEndsLoop ==
    /\ [](acceptError => listener = "returned")
    /\ [][acceptError =>
            /\ acceptError'
            /\ listener' = "returned"
            /\ backlog' = backlog
            /\ \A c \in Conns : Spawned(c)' = Spawned(c)]_vars

C17_Witness ==
    /\ acceptError
    /\ backlog # <<>>
    /\ \E c \in Conns : Streaming(c)

\* C18: a handler leaves Streaming only by reading a close frame, a receive
\* error or the end of the stream; while no item arrives it stays in
\* Streaming
C18_NoIdleTimeout ==
    [][\A c \in Conns :
         /\ Streaming(c) /\ ~Streaming(c)' =>
               /\ inbox[c] # <<>>
               /\ Head(inbox[c]).kind \in Terminators
               /\ Closed(c)'
         /\ Streaming(c) /\ inbox[c] = <<>> => Streaming(c)']_vars

C18_Witness ==
    \E c \in Conns :
        /\ Streaming(c)
        /\ inbox[c] = <<>>
        /\ Len(received[c]) = MaxFrames
        /\ listener = "returned"

\* C19: the end of the accept loop changes no handler, and afterwards a
\* handler in Handshaking or Streaming can take its next step and makes both
\* dispatches of every typed message it reads
C19_HandlersOutliveLoop ==
    /\ [][~acceptError /\ acceptError' =>
            \A c \in Conns : ConnState(c)' = ConnState(c)]_vars
    /\ [](acceptError =>
            \A c \in Conns :
               /\ hpc[c] = "upgrade" => ENABLED Upgrade(c)
               /\ hpc[c] = "send" => ENABLED SendConnected(c)
               /\ Streaming(c) /\ inbox[c] # <<>> => ENABLED ReadFrame(c))
    /\ [][\A c \in Conns :
            /\ acceptError
            /\ Streaming(c)
            /\ inbox[c] # <<>>
            /\ IsTyped(Head(inbox[c]))
            /\ received'[c] # received[c]
            => /\ Len(emitted'[c]) = Len(emitted[c]) + 2
               /\ TwoDispatches(c, Len(received[c]))']_vars

C19_Witness ==
    /\ acceptError
    /\ \E c, d \in Conns :
          /\ Streaming(c)
          /\ inbox[c] = <<TextFrame(TxtStatus)>>
          /\ hpc[d] = "upgrade"

\* C20: for every typed message the topic "ws:message" gets exactly one
\* dispatch, also when the type is "message"
C20_OneCatchAll ==
    \A c \in Conns : \A i \in 1..Len(received[c]) :
        IsTyped(received[c][i]) =>
            Len(SelectSeq(DispatchesFor(c, i), LAMBDA d : d.topic = "ws:message")) = 1

TypeOK ==
    /\ listener \in {"bind", "accept", "returned"}
    /\ \A c \in Conns : hpc[c] \in {"unspawned", "upgrade", "send", "recv", "done"}

====
